---- MODULE Spec2Model ----
(***************************************************************************)
(* Model of the two image downloaders of the repository:                   *)
(*   src/download_images.py            (the flat variant)                  *)
(*   src/download_images_organized.py  (the grouped variant)               *)
(* Strings are TLA+ strings handled character by character (Len, SubSeq,   *)
(* \o), so that the filename derivation, the grouping keys and the         *)
(* collision suffixes are computed the way the Python code computes them.  *)
(***************************************************************************)
EXTENDS Integers, Sequences, FiniteSets, TLC

\* ------------------------------------------------------------------
\* Bounds and program constants
\* ------------------------------------------------------------------

\* The longest page (number of <img> tags) the model explores.
MaxTags == 3

\* time.sleep(0.5), counted in tenths of a second.
SleepTenths == 5

\* ------------------------------------------------------------------
\* Python string primitives
\* ------------------------------------------------------------------

Min(S) == CHOOSE x \in S : \A y \in S : x <= y

Max(S) == CHOOSE x \in S : \A y \in S : x >= y

\* The characters of string s from position a to position b (positions start
\* at 1), cut to the string as a Python slice is: "" when none is in range.
Slice(s, a, b) ==
    LET lo == IF a < 1 THEN 1 ELSE a
        hi == IF b > Len(s) THEN Len(s) ELSE b
    IN  IF lo > hi THEN "" ELSE SubSeq(s, lo, hi)

\* s[i-1:i] in Python: the character at position i, "" out of range.
Ch(s, i) == Slice(s, i, i)

\* s.startswith(p)
StartsWith(s, p) == Len(s) >= Len(p) /\ Slice(s, 1, Len(p)) = p

\* s.endswith(p)
EndsWith(s, p) == Len(s) >= Len(p) /\ Slice(s, Len(s) - Len(p) + 1, Len(s)) = p

\* The least element of a set of positions, `none` when the set is empty.
MinOr(P, none) == IF P = {} THEN none ELSE Min(P)

\* The greatest element of a set of positions, `none` when the set is empty.
MaxOr(P, none) == IF P = {} THEN none ELSE Max(P)

\* The positions where sub occurs in s.
Occurrences(s, sub) ==
    {i \in 1..(Len(s) - Len(sub) + 1) : Slice(s, i, i + Len(sub) - 1) = sub}

\* s.find(sub) + 1: the first position where sub occurs, 0 when it does not.
Find(s, sub) == MinOr(Occurrences(s, sub), 0)

\* s.rfind(sub) + 1
RFind(s, sub) == MaxOr(Occurrences(s, sub), 0)

\* sub in s
Contains(s, sub) == Find(s, sub) # 0

\* s[:n]
Prefix(s, n) == Slice(s, 1, IF n < Len(s) THEN n ELSE Len(s))

\* s[-n:]
Suffix(s, n) == Slice(s, (IF n < Len(s) THEN Len(s) - n ELSE 0) + 1, Len(s))

\* s[i:] with a 0-based i
From(s, i) == Slice(s, i + 1, Len(s))

LowerLetters ==
    {"a","b","c","d","e","f","g","h","i","j","k","l","m",
     "n","o","p","q","r","s","t","u","v","w","x","y","z"}

UpperLetters ==
    {"A","B","C","D","E","F","G","H","I","J","K","L","M",
     "N","O","P","Q","R","S","T","U","V","W","X","Y","Z"}

Letters == LowerLetters \cup UpperLetters

Digits == {"0","1","2","3","4","5","6","7","8","9"}

\* \w of Python's re on the ASCII strings of the model
WordChars == Letters \cup Digits \cup {"_"}

\* [a-f0-9]
HexChars == {"a","b","c","d","e","f"} \cup Digits

\* re.sub(r'[^...]', '_', s): every character outside `allowed` becomes "_".
ReSubUnderscore(s, allowed) ==
    LET F[i \in 0..Len(s)] ==
            IF i = 0 THEN ""
            ELSE F[i - 1] \o (IF Ch(s, i) \in allowed THEN Ch(s, i) ELSE "_")
    IN  F[Len(s)]

\* re.sub(r'[^\w\-_.]', '_', s)
CleanName(s) == ReSubUnderscore(s, WordChars \cup {"-", "."})

\* re.sub(r'[^\w\-_]', '_', s)
CleanText(s) == ReSubUnderscore(s, WordChars \cup {"-"})

\* os.path.splitext's split of p at its last dot, given the positions of the
\* last "/" and the last "." (0 when there is none): the extension starts at
\* the last dot of the last path component, unless only dots precede it there.
SplitAtDot(p, sepIndex, dotIndex) ==
    IF dotIndex > sepIndex /\ \E k \in (sepIndex + 1)..(dotIndex - 1) : Ch(p, k) # "."
    THEN <<Slice(p, 1, dotIndex - 1), Slice(p, dotIndex, Len(p))>>
    ELSE <<p, "">>

\* os.path.splitext (posixpath)
Splitext(p) == SplitAtDot(p, RFind(p, "/"), RFind(p, "."))

\* os.path.basename (posixpath)
Basename(p) == Slice(p, RFind(p, "/") + 1, Len(p))

\* os.path.join(a, b) (posixpath) for two components
PathJoin(a, b) ==
    IF StartsWith(b, "/") THEN b
    ELSE IF a = "" \/ EndsWith(a, "/") THEN a \o b
    ELSE a \o "/" \o b

\* ------------------------------------------------------------------
\* urllib.parse
\* ------------------------------------------------------------------

\* The first position >= from of a character of `chars` in s, Len(s)+1 if none.
FirstOf(s, chars, from) == MinOr({k \in from..Len(s) : Ch(s, k) \in chars}, Len(s) + 1)

\* s up to its first character of `chars`, and s from that character on.
Before(s, chars) == Slice(s, 1, FirstOf(s, chars, 1) - 1)

FromFirst(s, chars) == Slice(s, FirstOf(s, chars, 1), Len(s))

\* Whether the c - 1 characters before the ":" at position c are a scheme: a
\* letter followed by letters, digits, "+", "-" or ".".
IsScheme(u, c) ==
    /\ c > 1
    /\ Ch(u, 1) \in Letters
    /\ \A k \in 1..(c - 1) : Ch(u, k) \in Letters \cup Digits \cup {"+", "-", "."}

\* The scheme of u given the position c of its first ":" (0 if none).
SchemeBefore(u, c) == IF IsScheme(u, c) THEN Slice(u, 1, c - 1) ELSE ""

\* urlsplit's scheme: the text before the first ":" when it is a scheme, ""
\* when there is none.
UrlScheme(u) == SchemeBefore(u, Find(u, ":"))

\* u without its "scheme:" prefix.
DropScheme(u, scheme) == IF scheme = "" THEN u ELSE From(u, Len(scheme) + 1)

\* What follows "scheme:" (the whole string when there is no scheme).
AfterScheme(u) == DropScheme(u, UrlScheme(u))

\* The netloc of r, the URL after its scheme: what follows "//", up to the
\* first "/", "?" or "#".
NetlocOf(r) ==
    IF StartsWith(r, "//") THEN Slice(r, 3, FirstOf(r, {"/", "?", "#"}, 3) - 1) ELSE ""

\* urlparse(u).netloc
UrlNetloc(u) == NetlocOf(AfterScheme(u))

\* What follows the netloc of r, the URL after its scheme.
AfterNetloc(r) ==
    IF StartsWith(r, "//") THEN From(r, FirstOf(r, {"/", "?", "#"}, 3) - 1) ELSE r

\* urlparse's split of the ";params" off the last segment of a path.
DropParams(p) == Slice(p, 1, FirstOf(p, {";"}, RFind(p, "/") + 1) - 1)

\* urlparse(u).path: after the netloc, up to "?" or "#", without the
\* ";params" of the last segment.
UrlPath(u) == DropParams(Before(AfterNetloc(AfterScheme(u)), {"?", "#"}))

\* s.split("/")
SplitSlash(s) ==
    LET F[i \in 0..Len(s)] ==
            IF i = 0 THEN <<"">>
            ELSE LET prev == F[i - 1]
                 IN  IF Ch(s, i) = "/" THEN Append(prev, "")
                     ELSE [prev EXCEPT ![Len(prev)] = @ \o Ch(s, i)]
    IN  F[Len(s)]

\* "/".join(parts)
JoinSlash(parts) ==
    LET F[i \in 0..Len(parts)] ==
            IF i = 0 THEN ""
            ELSE IF i = 1 THEN parts[1]
            ELSE F[i - 1] \o "/" \o parts[i]
    IN  F[Len(parts)]

\* urljoin's removal of "." and ".." segments.
ResolveDots(segments) ==
    LET F[i \in 0..Len(segments)] ==
            IF i = 0 THEN <<>>
            ELSE LET prev == F[i - 1]
                 IN  IF segments[i] = ".."
                     THEN IF prev = <<>> THEN <<>> ELSE SubSeq(prev, 1, Len(prev) - 1)
                     ELSE IF segments[i] = "." THEN prev
                     ELSE Append(prev, segments[i])
    IN  IF segments[Len(segments)] \in {".", ".."}
        THEN Append(F[Len(segments)], "") ELSE F[Len(segments)]

\* base_parts of urljoin: the segments of the base path without the last one,
\* unless the last one is empty.
BaseDir(bparts) ==
    IF bparts[Len(bparts)] # "" THEN SubSeq(bparts, 1, Len(bparts) - 1) ELSE bparts

\* segments[1:-1] = filter(None, segments[1:-1])
DropInnerEmpty(segs) ==
    <<segs[1]>> \o SelectSeq(SubSeq(segs, 2, Len(segs) - 1), LAMBDA x : x # "")
                \o <<segs[Len(segs)]>>

\* urlunparse puts a "/" between the netloc and a path that lacks one.
Rooted(path) == IF StartsWith(path, "/") THEN path ELSE "/" \o path

\* The path of urljoin for a base path and a relative path.
MergedPath(bpath, path) ==
    Rooted(JoinSlash(ResolveDots(
        DropInnerEmpty(BaseDir(SplitSlash(bpath)) \o SplitSlash(path)))))

\* urljoin for a ref given both schemes: a ref with another scheme is
\* returned unchanged; otherwise the ref's path is merged with the base
\* path's directory and its dot segments resolved, and the ref's query and
\* fragment are kept.
JoinSchemes(base, ref, bscheme, rscheme) ==
    IF rscheme # "" /\ rscheme # bscheme THEN ref
    ELSE bscheme \o "://" \o UrlNetloc(base)
         \o MergedPath(UrlPath(base), Before(AfterScheme(ref), {"?", "#"}))
         \o FromFirst(AfterScheme(ref), {"?", "#"})

\* urllib.parse.urljoin(base, ref) for an http(s) base with a netloc and a
\* non-empty ref that has a path and no netloc of its own (the only way the
\* program calls it: ref starts with neither "http://", "https://" nor "/").
UrlJoin(base, ref) == JoinSchemes(base, ref, UrlScheme(base), UrlScheme(ref))

\* ------------------------------------------------------------------
\* The regular expressions of the filename derivation
\* ------------------------------------------------------------------

\* Whether the 36 characters of s from position i have the shape
\* [a-f0-9]{8}-[a-f0-9]{4}-[a-f0-9]{4}-[a-f0-9]{4}-[a-f0-9]{12}.
UuidAt(s, i) ==
    /\ i + 35 <= Len(s)
    /\ \A k \in 0..35 :
          IF k \in {8, 13, 18, 23} THEN Ch(s, i + k) = "-" ELSE Ch(s, i + k) \in HexChars

\* The 36 characters of s at the least position of P, "" when P is empty.
UuidFrom(s, P) == IF P = {} THEN "" ELSE Slice(s, Min(P), Min(P) + 35)

\* re.search of the UUID pattern: group(1) of the leftmost match, "" for None.
UuidSearch(s) == UuidFrom(s, {i \in 1..Len(s) : UuidAt(s, i)})

\* (?:format|preview|quality) at position q
KeywordAt(s, q) ==
    \E kw \in {"format", "preview", "quality"} : Slice(s, q, q + Len(kw) - 1) = kw

\* (?:-/|-)?(?:format|preview|quality) at position q
MarkerAt(s, q) ==
    \/ KeywordAt(s, q)
    \/ Ch(s, q) = "-" /\ KeywordAt(s, q + 1)
    \/ Slice(s, q, q + 1) = "-/" /\ KeywordAt(s, q + 2)

\* The "/" after position p among `slashes`, n + 1 when there is none.
NextSlash(slashes, n, p) == Min({q \in slashes \cup {n + 1} : q > p})

\* Where the marker may start for a match that starts at the "/" at p: after
\* a group of at least one character, none of them a "/".
GroupEnds(markers, slashes, n, p) ==
    {q \in markers : q >= p + 2 /\ q <= NextSlash(slashes, n, p)}

\* group(1) of the leftmost match, the lazy group taking the fewest
\* characters; "" when no "/" starts a match.
FirstGroup(s, markers, slashes, starts) ==
    IF starts = {} THEN ""
    ELSE Slice(s, Min(starts) + 1, Min(GroupEnds(markers, slashes, Len(s), Min(starts))) - 1)

\* The search given the positions of the markers and of the "/"s.
GroupSearch(s, markers, slashes) ==
    FirstGroup(s, markers, slashes,
               {p \in slashes : GroupEnds(markers, slashes, Len(s), p) # {}})

\* re.search(r'/([^/]+?)(?:-/|-)?(?:format|preview|quality)', s).group(1), ""
\* for None. A match starts at a "/" at position p, its group is the n >= 1
\* characters after it, none of them a "/", and the marker follows at
\* position p + n + 1.
OrigNameSearch(s) ==
    GroupSearch(s, {q \in 1..Len(s) : MarkerAt(s, q)}, {p \in 1..Len(s) : Ch(s, p) = "/"})

\* The longest prefix of s made of characters of `chars`.
LeadingRun(s, chars) ==
    Slice(s, 1, MinOr({k \in 1..Len(s) : Ch(s, k) \notin chars}, Len(s) + 1) - 1)

\* ------------------------------------------------------------------
\* Hashes
\* ------------------------------------------------------------------

\* hashlib.md5(u.encode()).hexdigest(), tabulated for the image URLs the pages
\* of the model resolve to.
Md5Hex(u) ==
    CASE
         u = "https://site.example/img/sunset_01.jpg"
           -> "ac41a823f5bf1c0fa22d17a9ff740549"
      [] u = "https://site.example/img/sunset_02.jpg"
           -> "4e89e09cabed5323da0ca4074812682f"
      [] u = "https://site.example/x/pics/sunset_01_1.jpg"
           -> "45c95292409de6398a78f885a222a535"
      [] u = "https://i.shgcdn.com/123e4567-e89b-12d3-a456-426614174000/ab-/format/auto"
           -> "e8b9117d615fe545a0ddf7de0e6b8cf9"
      [] u = "https://site.example/ab_14174000.jpg"
           -> "7fb20869ec8ad922329137e177a0e069"
      [] u = "https://i.shgcdn.com/2ab-/preview/big"
           -> "82da866785723397033e8d81dc682ee0"

\* hash(s) & 0xffffffff. Python's hash of a str is seeded per process
\* (PYTHONHASHSEED): within one run it is a fixed function of the string with
\* values in 0..2^32-1, across runs it is not known. MaskedHash is one such
\* function for each seed of the run, with its values among the integers TLC
\* can hold (up to 2^31-1).
MaskedHash(seed, s) == (seed * 1000003 + 40503 * Len(s)) % 2147483647

\* ------------------------------------------------------------------
\* Tags, URL resolution and the filter
\* ------------------------------------------------------------------

\* img.get(name, default): a tag is the dictionary of its attributes.
Get(tag, name, default) == IF name \in DOMAIN tag THEN tag[name] ELSE default

\* img.get('src') or img.get('data-src') or img.get('data-original'); None
\* and '' are both falsy and both become "".
ImgUrlOf(tag) ==
    IF Get(tag, "src", "") # "" THEN tag["src"]
    ELSE IF Get(tag, "data-src", "") # "" THEN tag["data-src"]
    ELSE Get(tag, "data-original", "")

\* base_url = f"{parsed_url.scheme}://{parsed_url.netloc}"
BaseUrl(page_url) == UrlScheme(page_url) \o "://" \o UrlNetloc(page_url)

\* Convert relative URL to absolute URL.
Resolve(img_url, page_url) ==
    IF StartsWith(img_url, "http://") \/ StartsWith(img_url, "https://") THEN img_url
    ELSE IF StartsWith(img_url, "//") THEN UrlScheme(page_url) \o ":" \o img_url
    ELSE IF StartsWith(img_url, "/") THEN BaseUrl(page_url) \o img_url
    ELSE UrlJoin(page_url, img_url)

\* A faulty variant of Excluded: SVG images are not skipped.
ExcludedButSvg(img_url) == Contains(img_url, "data:image") \/ img_url = ""

\* Skip SVG images, base64 encoded images, and empty URLs.
Excluded(img_url) ==
    Contains(img_url, "data:image") \/ img_url = "" \/ EndsWith(img_url, ".svg")

\* ------------------------------------------------------------------
\* Filename derivation
\* ------------------------------------------------------------------

\* if not os.path.splitext(filename)[1]: filename += '.jpg'
AddDefaultExt(filename) ==
    IF Splitext(filename)[2] = "" THEN filename \o ".jpg" ELSE filename

\* The flat variant's filename for a shgcdn.com URL, given the UUID found in
\* it ("" when none).
FlatCdnName(img_url, uuid, seed) ==
    IF uuid # "" THEN "image_" \o uuid \o ".jpg"
    ELSE "image_" \o ToString(MaskedHash(seed, img_url)) \o ".jpg"

\* The flat variant's filename for a resolved URL.
FlatFilename(img_url, seed) ==
    IF Contains(img_url, "shgcdn.com")
    THEN FlatCdnName(img_url, UuidSearch(img_url), seed)
    ELSE AddDefaultExt(CleanName(Basename(UrlPath(img_url))))

\* alt_text and len(alt_text) > 3
Usable(text) == text # "" /\ Len(text) > 3

\* The cleaned group(1) of the original-name search, "" when it found nothing.
CleanMatch(match) == IF match # "" THEN CleanName(match) ELSE ""

\* The grouped variant's original_name for a resolved URL ("" when none).
OriginalName(img_url) ==
    IF Contains(img_url, "shgcdn.com") THEN CleanMatch(OrigNameSearch(img_url)) ELSE ""

\* The grouped variant's filename for a shgcdn.com URL, given the UUID found
\* in it ("" when none) and the original name ("" when none).
OrgCdnName(img_url, uuid, original_name, alt_text, title) ==
    IF uuid # ""
    THEN IF original_name # ""
         THEN original_name \o "_" \o Suffix(uuid, 8) \o ".jpg"
         ELSE IF Usable(alt_text)
         THEN Prefix(CleanText(alt_text), 30) \o "_" \o Suffix(uuid, 8) \o ".jpg"
         ELSE IF Usable(title)
         THEN Prefix(CleanText(title), 30) \o "_" \o Suffix(uuid, 8) \o ".jpg"
         ELSE "image_" \o uuid \o ".jpg"
    ELSE IF original_name # ""
         THEN original_name \o "_" \o Prefix(Md5Hex(img_url), 8) \o ".jpg"
         ELSE "image_" \o Prefix(Md5Hex(img_url), 12) \o ".jpg"

\* The grouped variant's filename for another URL, given the filename taken
\* from its path: a generic or short one gives way to the alt or title text.
OrgPlainName(img_url, filename, alt_text, title) ==
    IF filename \in {"image.jpg", "img.jpg", "picture.jpg", ".jpg"} \/ Len(filename) < 5
    THEN IF Usable(alt_text)
         THEN Prefix(CleanText(alt_text), 30) \o "_" \o Prefix(Md5Hex(img_url), 8) \o ".jpg"
         ELSE IF Usable(title)
         THEN Prefix(CleanText(title), 30) \o "_" \o Prefix(Md5Hex(img_url), 8) \o ".jpg"
         ELSE filename
    ELSE filename

\* The grouped variant's filename for a resolved URL and its alt and title.
OrganizedFilename(img_url, alt_text, title) ==
    IF Contains(img_url, "shgcdn.com")
    THEN OrgCdnName(img_url, UuidSearch(img_url), OriginalName(img_url), alt_text, title)
    ELSE OrgPlainName(img_url, CleanName(AddDefaultExt(Basename(UrlPath(img_url)))),
                      alt_text, title)

\* The image_info entry of a retained tag.
InfoOf(tag, img_url) ==
    [url           |-> img_url,
     filename      |-> OrganizedFilename(img_url, Get(tag, "alt", ""), Get(tag, "title", "")),
     alt_text      |-> Get(tag, "alt", ""),
     title         |-> Get(tag, "title", ""),
     original_name |-> OriginalName(img_url)]

\* Whether the loops skip a tag, given its raw and its resolved URL.
Skipped(raw, img_url) == raw = "" \/ Excluded(img_url)

\* One pass of the first loop of the grouped variant.
Collected(infos, tag, raw, img_url) ==
    IF Skipped(raw, img_url) THEN infos ELSE Append(infos, InfoOf(tag, img_url))

\* The first loop of the grouped variant: the image_info list of a page.
CollectInfo(tags, page_url) ==
    LET F[i \in 0..Len(tags)] ==
            IF i = 0 THEN <<>>
            ELSE Collected(F[i - 1], tags[i], ImgUrlOf(tags[i]),
                           Resolve(ImgUrlOf(tags[i]), page_url))
    IN  F[Len(tags)]

\* ------------------------------------------------------------------
\* Grouping
\* ------------------------------------------------------------------

\* re.match(r'^([a-zA-Z_]+)', filename), else filename[:3]
FilenameKey(filename) ==
    LET base == LeadingRun(filename, Letters \cup {"_"})
    IN  IF base # "" THEN base ELSE Prefix(filename, 3)

\* re.split(r'[^a-zA-Z]', original_name)[0]
FirstPart(original_name) == LeadingRun(original_name, Letters)

\* If original name is available, prefer its first part to the filename's key.
PreferOriginal(key, original_name) ==
    IF original_name # "" /\ FirstPart(original_name) # "" THEN FirstPart(original_name)
    ELSE key

\* Fallback for very short keys.
MiscIfShort(key) == IF Len(key) < 2 THEN "misc" ELSE key

\* The group key of an image_info entry.
GroupKey(info) ==
    MiscIfShort(PreferOriginal(FilenameKey(info.filename), info.original_name))

\* image_groups[key].append(info) given the positions of key in the groups.
AppendAt(groups, at, key, info) ==
    IF at = {} THEN Append(groups, [group |-> key, images |-> <<info>>])
    ELSE [groups EXCEPT ![CHOOSE n \in at : TRUE].images = Append(@, info)]

\* image_groups[key].append(info)
AppendTo(groups, key, info) ==
    AppendAt(groups, {n \in 1..Len(groups) : groups[n].group = key}, key, info)

\* image_groups: a defaultdict(list) in insertion order, as a sequence of
\* [group, images].
GroupImages(infos) ==
    LET F[i \in 0..Len(infos)] ==
            IF i = 0 THEN <<>> ELSE AppendTo(F[i - 1], GroupKey(infos[i]), infos[i])
    IN  F[Len(infos)]

\* ------------------------------------------------------------------
\* Collision handling
\* ------------------------------------------------------------------

RECURSIVE NextFree(_, _, _, _, _)
\* while filename in used: filename = f"{base_name}_{counter}{ext}"; counter += 1
NextFree(filename, base_name, ext, counter, used) ==
    IF filename \in used
    THEN NextFree(base_name \o "_" \o ToString(counter) \o ext, base_name, ext, counter + 1, used)
    ELSE filename

\* The loop started from the split of the candidate.
UniqueFrom(filename, split, used) == NextFree(filename, split[1], split[2], 1, used)

\* A faulty variant of UniqueName: an if in place of the while, so that only
\* the suffix _1 is tried.
UniqueNameTriedOnce(filename, used) ==
    IF filename \in used
    THEN Splitext(filename)[1] \o "_1" \o Splitext(filename)[2]
    ELSE filename

\* Ensure unique filenames: the name given to a candidate, given the names used.
UniqueName(filename, used) == UniqueFrom(filename, Splitext(filename), used)

\* A faulty variant of AddName: the name taken is not recorded.
AddNameForgotten(used, filename) == used

\* downloaded_files.add(filename) / used_filenames.add(filename)
AddName(used, filename) == used \cup {filename}

\* ------------------------------------------------------------------
\* Inputs of a run
\* ------------------------------------------------------------------

\* The website URL typed by the user (the scheme is optional).
PageUrls == {"site.example/x/y", "https://site.example/x/y"}

\* output_folder='downloaded_images'
OutputFolder == "downloaded_images"

\* The <img> tags a page may hold.
Tags ==
    {[src |-> "https://site.example/img/sunset_01.jpg", alt |-> "Sunset"],
     ("data-src" :> "/img/sunset_02.jpg"),
     ("src" :> "") @@ ("data-original" :> "pics/sunset_01_1.jpg"),
     [src |-> "//i.shgcdn.com/123e4567-e89b-12d3-a456-426614174000/ab-/format/auto"],
     [src |-> "https://site.example/ab_14174000.jpg"],
     [src |-> "//i.shgcdn.com/2ab-/preview/big", title |-> "Two"],
     [src |-> "logo.svg"],
     [src |-> "data:image/png;base64,AAAA"],
     [alt |-> "spacer"]}

\* The pages the server may return: up to MaxTags tags, in any order.
Pages == UNION {[1..n -> Tags] : n \in 0..MaxTags}

\* The process's string-hash seed, which only the flat variant uses.
HashSeeds == {0, 1}

\* Add http scheme if not present.
WithScheme(page_url) ==
    IF StartsWith(page_url, "http://") \/ StartsWith(page_url, "https://")
    THEN page_url ELSE "https://" \o page_url

\* The URLs the page may be fetched from.
FetchUrls == {WithScheme(u) : u \in PageUrls}

\* Whether the flat pass for a tag calls hash(): a retained shgcdn URL
\* without UUID.
HashCalled(raw, img_url) ==
    ~Skipped(raw, img_url) /\ Contains(img_url, "shgcdn.com") /\ UuidSearch(img_url) = ""

\* What the flat pass derives from a tag's raw and resolved URL: whether the
\* tag is skipped and, if not, the filename derived from the URL.
FlatPassOf(raw, img_url, seed) ==
    [img_url     |-> img_url,
     skipped     |-> Skipped(raw, img_url),
     hash_called |-> HashCalled(raw, img_url),
     candidate   |-> IF Skipped(raw, img_url) THEN "" ELSE FlatFilename(img_url, seed)]

\* The flat pass of every tag, page URL and seed of the model, computed once.
FlatPasses ==
    [tag \in Tags, u \in FetchUrls, seed \in HashSeeds |->
        FlatPassOf(ImgUrlOf(tag), Resolve(ImgUrlOf(tag), u), seed)]

\* What the server may answer to the page request.
PageResponses ==
    {[raised |-> FALSE, status |-> 200],
     [raised |-> FALSE, status |-> 404],
     [raised |-> TRUE,  status |-> 0]}

\* What the server may answer to an image request: a response with a status
\* and headers, or an exception of requests.get (connection error, timeout).
ImageResponses ==
    {[raised |-> FALSE, status |-> 200, headers |-> [ContentType |-> "image/png"]],
     [raised |-> FALSE, status |-> 200, headers |-> [ContentType |-> "text/html"]],
     [raised |-> FALSE, status |-> 200, headers |-> [Server |-> "nginx"]],
     [raised |-> FALSE, status |-> 404, headers |-> [ContentType |-> "text/html"]],
     [raised |-> TRUE,  status |-> 0,   headers |-> [Server |-> ""]]}

\* Whether open(output_path, 'wb') and the writes succeed.
DiskOutcomes == {"ok", "error"}

\* response.raise_for_status(): raises for 4XX/5XX responses.
RaisesForStatus(status) == status >= 400 /\ status < 600

\* A faulty variant of ContentTypeOf: a missing header is taken for an image,
\* headers.get('Content-Type', 'image/').
ContentTypeOrImage(resp) == Get(resp.headers, "ContentType", "image/")

\* img_response.headers.get('Content-Type', '')
ContentTypeOf(resp) == Get(resp.headers, "ContentType", "")

\* content_type.startswith('image/')
IsImage(content_type) == StartsWith(content_type, "image/")

\* The body of the try block for one image: "failed" when an exception
\* reaches the except clause, "skipped" for a non-image content type,
\* "saved" when the file was written.
Attempt(resp, disk) ==
    IF resp.raised \/ RaisesForStatus(resp.status) THEN "failed"
    ELSE IF ~IsImage(ContentTypeOf(resp)) THEN "skipped"
    ELSE IF disk = "error" THEN "failed"
    ELSE "saved"

\* ------------------------------------------------------------------
\* State
\* ------------------------------------------------------------------

VARIABLES
    variant,          \* "flat": download_images.py, "organized": download_images_organized.py
    hash_seed,        \* the process's string-hash seed: <<>> until hash() is first called
    page,             \* the tags of the page the server holds
    pc,               \* the position in download_images()
    url,              \* the local variable url
    dirs,             \* the directories created with os.makedirs
    fetched,          \* "no", "ok" or "failed": the outcome of the page request
    img_tags,         \* soup.find_all('img')
    idx,              \* flat: the position of the for loop in img_tags
    downloaded_files, \* flat: the set of filenames taken
    image_info,       \* organized: the retained images
    image_groups,     \* organized: the groups, in insertion order
    g,                \* organized: the position of the loop over the groups
    j,                \* organized: the position of the loop over a group's images
    group_dir,        \* organized: the directory of the current group
    used_filenames,   \* organized: the filenames taken in the current group
    cur,              \* the image in hand: img_url, filename, output_path
    download_count,   \* the number of images saved
    assigned,         \* history: the filenames assigned, in order
    requests,         \* history: the image URLs requested, in order
    writes,           \* history: the paths written, in order
    slept,            \* history: the time slept, in tenths of a second
    last,             \* history: the response for the image last requested and what came
                      \* of it, until the next image is taken in hand
    console           \* history: the failure and summary lines printed

vars == <<variant, hash_seed, page, pc, url, dirs, fetched, img_tags, idx,
          downloaded_files, image_info, image_groups, g, j, group_dir,
          used_filenames, cur, download_count, assigned, requests, writes,
          slept, last, console>>

NoImage == [img_url |-> "", filename |-> "", output_path |-> ""]

NoResponse == [resp |-> [raised |-> FALSE, status |-> 0, headers |-> [Server |-> ""]],
               result |-> "none"]

Init ==
    /\ variant \in {"flat", "organized"}
    /\ hash_seed = <<>>
    /\ page \in Pages
    /\ url \in PageUrls
    /\ pc = "start"
    /\ dirs = {}
    /\ fetched = "no"
    /\ img_tags = <<>>
    /\ idx = 1
    /\ downloaded_files = {}
    /\ image_info = <<>>
    /\ image_groups = <<>>
    /\ g = 1
    /\ j = 1
    /\ group_dir = ""
    /\ used_filenames = {}
    /\ cur = NoImage
    /\ download_count = 0
    /\ assigned = <<>>
    /\ requests = <<>>
    /\ writes = <<>>
    /\ slept = 0
    /\ last = NoResponse
    /\ console = <<>>

\* ------------------------------------------------------------------
\* Both variants: the output folder, the URL and the page
\* ------------------------------------------------------------------

\* Create the output folder; add the scheme if not present.
Start ==
    /\ pc = "start"
    /\ dirs' = dirs \cup {OutputFolder}
    /\ url' = WithScheme(url)
    /\ pc' = "fetch"
    /\ UNCHANGED <<variant, hash_seed, page, fetched, img_tags, idx, downloaded_files,
                   image_info, image_groups, g, j, group_dir, used_filenames, cur,
                   download_count, assigned, requests, writes, slept, last, console>>

\* Whether the page request ends in a RequestException: requests.get raised,
\* or raise_for_status did.
PageFailed(resp) == resp.raised \/ RaisesForStatus(resp.status)

\* A faulty variant of AfterPage: the except clause does not return.
AfterPageWithoutReturn(resp) == IF variant = "flat" THEN "flat_loop" ELSE "collect"

\* Where download_images() goes after the page request.
AfterPage(resp) ==
    IF PageFailed(resp) THEN "aborted"
    ELSE IF variant = "flat" THEN "flat_loop" ELSE "collect"

\* Fetch the webpage: a failure is printed and the function returns;
\* otherwise the page is parsed and its <img> tags found.
FetchPage ==
    /\ pc = "fetch"
    /\ \E resp \in PageResponses :
          /\ fetched' = IF PageFailed(resp) THEN "failed" ELSE "ok"
          /\ console' = IF PageFailed(resp)
                        THEN Append(console, [line  |-> "Failed to fetch the webpage",
                                              count |-> 0])
                        ELSE console
          /\ pc' = AfterPage(resp)
          /\ img_tags' = IF AfterPage(resp) = "aborted" THEN img_tags ELSE page
    /\ UNCHANGED <<variant, hash_seed, page, url, dirs, idx, downloaded_files,
                   image_info, image_groups, g, j, group_dir, used_filenames, cur,
                   download_count, assigned, requests, writes, slept, last>>

\* The outcomes of the disk that matter for a response: the file is opened
\* only for an image response.
DiskFor(resp) == IF Attempt(resp, "ok") = "saved" THEN DiskOutcomes ELSE {"ok"}

\* The try/except around one image, common to both variants: the request is
\* issued; the file is written, counted and followed by time.sleep(0.5) only
\* when nothing raised and the content type is an image.
Download(resp, disk) ==
    /\ requests' = Append(requests, cur.img_url)
    /\ last' = [resp |-> resp, result |-> Attempt(resp, disk)]
    /\ IF Attempt(resp, disk) = "saved"
       THEN /\ writes' = Append(writes, cur.output_path)
            /\ download_count' = download_count + 1
            /\ slept' = slept + SleepTenths
       ELSE UNCHANGED <<writes, download_count, slept>>
    /\ cur' = NoImage

\* ------------------------------------------------------------------
\* The flat variant
\* ------------------------------------------------------------------

\* Ensure unique filenames: the filename taken for the image, which becomes
\* the image in hand.
FlatTake(img_url, candidate, filename) ==
    /\ downloaded_files' = AddName(downloaded_files, filename)
    /\ cur' = [img_url |-> img_url, filename |-> filename,
               output_path |-> PathJoin(OutputFolder, filename)]
    /\ assigned' = Append(assigned,
           [url |-> img_url, candidate |-> candidate, filename |-> filename,
            scope |-> "", dir |-> OutputFolder])
    /\ last' = NoResponse
    /\ pc' = "flat_download"
    /\ UNCHANGED idx

\* The pass for a tag: the tag is skipped, or a unique filename is taken.
FlatPass(pass) ==
    IF pass.skipped
    THEN /\ idx' = idx + 1
         /\ UNCHANGED <<pc, downloaded_files, cur, assigned, last>>
    ELSE FlatTake(pass.img_url, pass.candidate,
                  UniqueName(pass.candidate, downloaded_files))

\* The pass for a tag in a process with the given seed.
FlatResolved(pass, seed) ==
    /\ FlatPass(pass)
    /\ hash_seed' = IF pass.hash_called THEN <<seed>> ELSE hash_seed

\* The seeds the process may have: the one hash() has used, if it was called.
\* The interpreter draws the seed when it starts, and nothing shows it before
\* the first call.
Seeds == IF hash_seed = <<>> THEN HashSeeds ELSE {hash_seed[1]}

\* One pass of the for loop up to the try block: the tag is skipped, or its
\* URL is resolved and a unique filename is taken for it.
FlatNextImage ==
    /\ variant = "flat" /\ pc = "flat_loop" /\ idx <= Len(img_tags)
    /\ \E seed \in Seeds : FlatResolved(FlatPasses[img_tags[idx], url, seed], seed)
    /\ UNCHANGED <<variant, page, url, dirs, fetched, img_tags, image_info,
                   image_groups, g, j, group_dir, used_filenames, download_count,
                   requests, writes, slept, console>>

\* A faulty variant of FlatDownload: the try block is around the loop, so
\* that a failure ends the loop.
FlatDownloadEndingLoop ==
    /\ variant = "flat" /\ pc = "flat_download"
    /\ \E resp \in ImageResponses : \E disk \in DiskFor(resp) :
          /\ Download(resp, disk)
          /\ idx' = IF Attempt(resp, disk) = "failed" THEN Len(img_tags) + 1 ELSE idx + 1
    /\ pc' = "flat_loop"
    /\ UNCHANGED <<variant, hash_seed, page, url, dirs, fetched, img_tags,
                   downloaded_files, image_info, image_groups, g, j, group_dir,
                   used_filenames, assigned, console>>

\* The try block of the flat variant, then the next pass.
FlatDownload ==
    /\ variant = "flat" /\ pc = "flat_download"
    /\ \E resp \in ImageResponses : \E disk \in DiskFor(resp) : Download(resp, disk)
    /\ idx' = idx + 1
    /\ pc' = "flat_loop"
    /\ UNCHANGED <<variant, hash_seed, page, url, dirs, fetched, img_tags,
                   downloaded_files, image_info, image_groups, g, j, group_dir,
                   used_filenames, assigned, console>>

\* print("Download complete! ...")
FlatSummary ==
    /\ variant = "flat" /\ pc = "flat_loop" /\ idx > Len(img_tags)
    /\ console' = Append(console, [line |-> "Download complete", count |-> download_count])
    /\ pc' = "done"
    /\ UNCHANGED <<variant, hash_seed, page, url, dirs, fetched, img_tags, idx,
                   downloaded_files, image_info, image_groups, g, j, group_dir,
                   used_filenames, cur, download_count, assigned, requests, writes,
                   slept, last>>

\* ------------------------------------------------------------------
\* The grouped variant
\* ------------------------------------------------------------------

\* The first loop: collect the image information of the retained tags.
OrgCollect ==
    /\ variant = "organized" /\ pc = "collect"
    /\ image_info' = CollectInfo(img_tags, url)
    /\ pc' = "organize"
    /\ UNCHANGED <<variant, hash_seed, page, url, dirs, fetched, img_tags, idx,
                   downloaded_files, image_groups, g, j, group_dir, used_filenames,
                   cur, download_count, assigned, requests, writes, slept, last, console>>

\* The second loop: organize the images by patterns in their filenames.
OrgOrganize ==
    /\ variant = "organized" /\ pc = "organize"
    /\ image_groups' = GroupImages(image_info)
    /\ g' = 1
    /\ pc' = "group_loop"
    /\ UNCHANGED <<variant, hash_seed, page, url, dirs, fetched, img_tags, idx,
                   downloaded_files, image_info, j, group_dir, used_filenames, cur,
                   download_count, assigned, requests, writes, slept, last, console>>

\* The directory of a group: a subdirectory if it has multiple images.
GroupDir(group) ==
    IF Len(group.images) > 1 THEN PathJoin(OutputFolder, group.group) ELSE OutputFolder

\* The head of the loop over the groups: the group's directory is chosen
\* (and created), and its set of used filenames starts empty.
OrgNextGroup ==
    /\ variant = "organized" /\ pc = "group_loop" /\ g <= Len(image_groups)
    /\ group_dir' = GroupDir(image_groups[g])
    /\ dirs' = dirs \cup {GroupDir(image_groups[g])}
    /\ used_filenames' = {}
    /\ j' = 1
    /\ pc' = "image_loop"
    /\ UNCHANGED <<variant, hash_seed, page, url, fetched, img_tags, idx,
                   downloaded_files, image_info, image_groups, g, cur, download_count,
                   assigned, requests, writes, slept, last, console>>

\* Ensure unique filenames within group: the filename taken for the image,
\* which becomes the image in hand.
OrgTake(group, info, filename) ==
    /\ used_filenames' = AddName(used_filenames, filename)
    /\ cur' = [img_url |-> info.url, filename |-> filename,
               output_path |-> PathJoin(group_dir, filename)]
    /\ assigned' = Append(assigned,
           [url |-> info.url, candidate |-> info.filename, filename |-> filename,
            scope |-> group, dir |-> group_dir])
    /\ last' = NoResponse

\* One pass of the loop over a group's images up to the try block: a
\* filename unique within the group is taken.
OrgNextImage ==
    /\ variant = "organized" /\ pc = "image_loop" /\ j <= Len(image_groups[g].images)
    /\ OrgTake(image_groups[g].group, image_groups[g].images[j],
               UniqueName(image_groups[g].images[j].filename, used_filenames))
    /\ pc' = "org_download"
    /\ UNCHANGED <<variant, hash_seed, page, url, dirs, fetched, img_tags, idx,
                   downloaded_files, image_info, image_groups, g, j, group_dir,
                   download_count, requests, writes, slept, console>>

\* The try block of the grouped variant, then the next image of the group
\* or, after the group's last image, the next group.
OrgDownload ==
    /\ variant = "organized" /\ pc = "org_download"
    /\ \E resp \in ImageResponses : \E disk \in DiskFor(resp) : Download(resp, disk)
    /\ IF j < Len(image_groups[g].images)
       THEN /\ j' = j + 1
            /\ pc' = "image_loop"
            /\ UNCHANGED g
       ELSE /\ g' = g + 1
            /\ pc' = "group_loop"
            /\ UNCHANGED j
    /\ UNCHANGED <<variant, hash_seed, page, url, dirs, fetched, img_tags, idx,
                   downloaded_files, image_info, image_groups, group_dir,
                   used_filenames, assigned, console>>

\* print("Download complete! ...") and print("Organized into ... groups")
OrgSummary ==
    /\ variant = "organized" /\ pc = "group_loop" /\ g > Len(image_groups)
    /\ console' = Append(console, [line |-> "Download complete", count |-> download_count])
    /\ pc' = "done"
    /\ UNCHANGED <<variant, hash_seed, page, url, dirs, fetched, img_tags, idx,
                   downloaded_files, image_info, image_groups, g, j, group_dir,
                   used_filenames, cur, download_count, assigned, requests, writes,
                   slept, last>>

Next ==
    \/ Start
    \/ FetchPage
    \/ FlatNextImage
    \/ FlatDownload
    \/ FlatSummary
    \/ OrgCollect
    \/ OrgOrganize
    \/ OrgNextGroup
    \/ OrgNextImage
    \/ OrgDownload
    \/ OrgSummary

Spec == Init /\ [][Next]_vars

\* ------------------------------------------------------------------
\* Properties
\* ------------------------------------------------------------------

\* No element occurs twice in seq.
NoRepeat(seq) == \A a, b \in 1..Len(seq) : a # b => seq[a] # seq[b]

\* The number of occurrences of x in seq.
Count(seq, x) == Cardinality({i \in 1..Len(seq) : seq[i] = x})

\* The filenames assigned so far.
Filenames == {assigned[i].filename : i \in 1..Len(assigned)}

\* The filenames assigned so far in a scope.
FilenamesIn(scope) ==
    {assigned[i].filename : i \in {k \in 1..Len(assigned) : assigned[k].scope = scope}}

\* The references a run must leave out: those whose resolved URL ends with
\* ".svg" or contains "data:image".
LeftOutUrls ==
    {r \in {Resolve(ImgUrlOf(tag), u) : tag \in Tags, u \in FetchUrls} :
        EndsWith(r, ".svg") \/ Contains(r, "data:image")}

\* The tags a run must leave out: those without a non-empty src, data-src or
\* data-original, and those whose reference is to be left out.
LeftOutTags ==
    {tag \in Tags :
        \/ \A name \in {"src", "data-src", "data-original"} : Get(tag, name, "") = ""
        \/ \A u \in FetchUrls : Resolve(ImgUrlOf(tag), u) \in LeftOutUrls}

\* The positions of the page whose tag is left out, and the others.
LeftOut == {k \in 1..Len(page) : page[k] \in LeftOutTags}
Kept == (1..Len(page)) \ LeftOut

\* The resolved URL of every tag for every page URL.
ResolvedUrls == [tag \in Tags, u \in FetchUrls |-> Resolve(ImgUrlOf(tag), u)]

\* The number of tags kept whose reference resolves to the URL r.
Wanted(r) == Cardinality({k \in Kept : ResolvedUrls[page[k], url] = r})

\* C1 (grouped variant): no two images are written to the same path, in the
\* output root (where the images of the singleton groups go) or in a group's
\* subdirectory.
C1_NoPathWrittenTwice == variant = "organized" => NoRepeat(writes)

\* C2 (flat variant): the filenames assigned so far are pairwise distinct, so
\* that no path of the output folder is written twice; the global set holds
\* the names assigned, and a candidate is replaced exactly when it is already
\* taken, by a name that is not.
C2_FlatNamesDistinct ==
    variant = "flat" =>
        /\ \A a, b \in 1..Len(assigned) :
              a # b => assigned[a].filename # assigned[b].filename
        /\ downloaded_files = Filenames
        /\ \A k \in 1..Len(assigned) :
              (assigned[k].filename # assigned[k].candidate)
                  <=> (\E i \in 1..(k - 1) : assigned[i].filename = assigned[k].candidate)
        /\ NoRepeat(writes)

\* C2: a flat run of three images, all saved, in which the second image got a
\* suffixed name and the third image's candidate is that suffixed name.
C2_SuffixedNameTaken ==
    /\ variant = "flat" /\ pc = "done"
    /\ Len(assigned) = 3 /\ Len(writes) = 3
    /\ assigned[2].filename # assigned[2].candidate
    /\ assigned[3].candidate = assigned[2].filename

\* C3 (both variants): the 0.5 delay has been applied after every image
\* attempt so far, whatever its outcome.
C3_PauseAfterEveryAttempt == slept = SleepTenths * Len(requests)

\* C4 (both variants): when the page fetch fails the run aborts with the
\* failure reported: no image is requested, no filename assigned, no file
\* written, and no summary printed.
C4_PageFailureAborts ==
    fetched = "failed" =>
        /\ pc = "aborted"
        /\ requests = <<>> /\ assigned = <<>> /\ writes = <<>>
        /\ console = <<[line |-> "Failed to fetch the webpage", count |-> 0]>>

\* C4: the fetch of a page that holds an image to download has failed.
C4_FailedPageWithImage == fetched = "failed" /\ Kept # {}

\* The images collected that have no filename assigned yet.
Unassigned == Len(image_info) - Len(assigned)

\* A bound on the steps left to the run, which is 0 when the run has ended.
StepsLeft ==
    CASE pc = "start"         -> 3 * Len(page) + 6
      [] pc = "fetch"         -> 3 * Len(page) + 5
      [] pc = "flat_loop"     -> 2 * (Len(img_tags) - idx + 1) + 1
      [] pc = "flat_download" -> 2 * (Len(img_tags) - idx + 1)
      [] pc = "collect"       -> 3 * Len(img_tags) + 3
      [] pc = "organize"      -> 3 * Len(image_info) + 2
      [] pc = "group_loop"    -> 3 * Unassigned + 1
      [] pc = "image_loop"    -> 3 * Unassigned
      [] pc = "org_download"  -> 3 * Unassigned + 2
      [] OTHER                -> 0

\* The loops are at a tag, a group or an image that exists, or at the end:
\* wherever the run has not ended, its next step can be taken.
InRange ==
    /\ pc = "flat_loop" => idx \in 1..(Len(img_tags) + 1)
    /\ pc = "flat_download" => idx \in 1..Len(img_tags)
    /\ pc = "group_loop" => g \in 1..(Len(image_groups) + 1)
    /\ pc \in {"image_loop", "org_download"} =>
          /\ g \in 1..Len(image_groups)
          /\ j \in 1..Len(image_groups[g].images)

\* C5 (both variants): once the page is fetched no image failure aborts the
\* run, and no image is requested more often than the page refers to it. The
\* run reaches the final summary: it is nowhere stuck before its end, every
\* step brings the end nearer, and it ends, the page fetched, with the summary
\* printed and every reference kept requested exactly once.
C5_ImageFailureIsolated ==
    /\ [](fetched = "ok" =>
            /\ pc # "aborted"
            /\ \A i \in 1..Len(requests) :
                  Count(requests, requests[i]) <= Wanted(requests[i])
            /\ pc = "done" =>
                  /\ Len(requests) = Cardinality(Kept)
                  /\ console = <<[line |-> "Download complete", count |-> download_count]>>)
    /\ [](InRange /\ StepsLeft >= 0 /\ (StepsLeft = 0 <=> pc \in {"done", "aborted"}))
    /\ [][StepsLeft' < StepsLeft]_vars

\* C5: a run of three images has ended in which the first two were not saved
\* and the third was.
C5_SavedAfterFailures ==
    /\ pc = "done" /\ Len(requests) = 3
    /\ Len(writes) = 1 /\ last.result = "saved"

\* Whether a response has a success status and a Content-Type that begins
\* with "image/".
ImageResponse(resp) ==
    /\ ~resp.raised /\ resp.status = 200
    /\ "ContentType" \in DOMAIN resp.headers
    /\ Slice(resp.headers["ContentType"], 1, 6) = "image/"

\* Whether a response has a success status and no such Content-Type.
NonImageResponse(resp) == ~resp.raised /\ resp.status = 200 /\ ~ImageResponse(resp)

\* The step of an image attempt: a non-image response is skipped, with
\* nothing written or counted and the run going on; a file is written only
\* for an image response, to the path of the image in hand, and counted.
AttemptStep ==
    Len(requests') = Len(requests) + 1 =>
        /\ NonImageResponse(last'.resp) =>
              /\ last'.result = "skipped"
              /\ writes' = writes /\ download_count' = download_count
              /\ pc' \in {"flat_loop", "image_loop", "group_loop"}
        /\ writes' # writes =>
              /\ ImageResponse(last'.resp)
              /\ writes' = Append(writes, cur.output_path)
              /\ download_count' = download_count + 1

\* C6 (both variants): a success response whose Content-Type does not begin
\* with "image/" (a missing header included) is skipped, not written and not
\* counted, and the run continues; the count, and the count of the summary,
\* is the number of image responses saved.
C6_NonImageSkipped ==
    /\ [](/\ download_count = Len(writes)
          /\ pc = "done" => console[Len(console)].count = Len(writes))
    /\ [][AttemptStep]_vars

\* C6: a run has ended in which one image of three was saved and the last
\* response had a success status and no Content-Type header.
C6_MissingHeaderSkipped ==
    /\ pc = "done" /\ Len(requests) = 3 /\ download_count = 1
    /\ last.result = "skipped"
    /\ "ContentType" \notin DOMAIN last.resp.headers

\* The filenames that C7 takes to have the group key "sunset".
SunsetNames == {"sunset_01.jpg", "sunset_02.jpg"}

\* The number of images collected whose filename is one of SunsetNames.
Sunsets ==
    Cardinality({k \in 1..Len(image_info) : image_info[k].filename \in SunsetNames})

\* The subdirectory named "sunset" of the output root.
SunsetDir == PathJoin(OutputFolder, "sunset")

\* C7 (grouped variant): sunset_01.jpg and sunset_02.jpg, when both are on
\* the page, are placed in the subdirectory "sunset" of the output root; one
\* of them alone is placed in the output root.
C7_SunsetPairInSunsetDir ==
    variant = "organized" =>
        \A i \in 1..Len(assigned) :
            assigned[i].candidate \in SunsetNames =>
                assigned[i].dir = IF Sunsets > 1 THEN SunsetDir ELSE OutputFolder

\* C8 (both variants): a reference that ends with ".svg" or contains
\* "data:image", and a tag without src, data-src or data-original, is left
\* out: it is not requested, no filename is assigned to it, and no file is
\* written for it.
C8_ExcludedNeverFetched ==
    /\ \A i \in 1..Len(assigned) : assigned[i].url \notin LeftOutUrls
    /\ \A i \in 1..Len(requests) : requests[i] \notin LeftOutUrls
    /\ Len(assigned) <= Cardinality(Kept)
    /\ Len(writes) <= Len(requests) /\ Len(requests) <= Len(assigned)
    /\ variant = "flat" => Cardinality(downloaded_files) <= Cardinality(Kept)

\* C8: a run has ended on a page with two tags left out and one image, which
\* was saved.
C8_LeftOutBesideSaved ==
    /\ pc = "done" /\ Cardinality(LeftOut) = 2 /\ Len(writes) = 1

\* The first non-empty token of name split on the non-alphabetic characters
\* ("" when there is none).
FirstToken(name) ==
    LeadingRun(From(name, MinOr({k \in 1..Len(name) : Ch(name, k) \in Letters},
                                Len(name) + 1) - 1),
               Letters)

\* The original names of the images of the model.
OriginalNames ==
    {OriginalName(Resolve(ImgUrlOf(tag), u)) : tag \in Tags, u \in FetchUrls}

\* The group key that C9 gives to every original name.
TokenKey ==
    [name \in OriginalNames |->
        IF Len(FirstToken(name)) < 2 THEN "misc" ELSE FirstToken(name)]

\* C9 (grouped variant): the group key of an image with an original name is
\* the first non-empty token of that name split on the non-alphabetic
\* characters, or "misc" if that is shorter than 2 characters.
C9_KeyIsFirstToken ==
    variant = "organized" =>
        \A k \in 1..Len(image_groups) : \A m \in 1..Len(image_groups[k].images) :
            image_groups[k].images[m].original_name # "" =>
                image_groups[k].group = TokenKey[image_groups[k].images[m].original_name]

\* The tracking set of the image in hand or last in hand.
Tracking == IF variant = "flat" THEN downloaded_files ELSE used_filenames

\* C10 (both variants): a filename is in the tracking set from its
\* assignment, before the request, and stays whatever the outcome: the global
\* set of the flat variant holds the names assigned in the run, the set of a
\* group those assigned in the group. A later image with the same candidate in
\* the same scope (the run, or the group) receives a suffixed name.
C10_NamesStayTracked ==
    /\ variant = "flat" => downloaded_files = Filenames
    /\ (variant = "organized" /\ pc \in {"image_loop", "org_download"}) =>
          used_filenames = FilenamesIn(image_groups[g].group)
    /\ Len(requests) <= Len(assigned)
    /\ pc \in {"flat_download", "org_download"} =>
          /\ Len(requests) = Len(assigned) - 1
          /\ cur.filename = assigned[Len(assigned)].filename
          /\ cur.filename \in Tracking
    /\ \A i, k \in 1..Len(assigned) :
          (i < k /\ assigned[i].scope = assigned[k].scope
                 /\ assigned[i].candidate = assigned[k].candidate)
              => assigned[k].filename # assigned[k].candidate

\* C10: in a group, the first image was requested and not saved, and the
\* next image, which has the same candidate, has received a suffixed name.
C10_SuffixedAfterFailure ==
    /\ variant = "organized" /\ pc = "org_download"
    /\ Len(assigned) = 2 /\ Len(requests) = 1 /\ writes = <<>>
    /\ assigned[2].candidate = assigned[1].candidate
    /\ assigned[2].filename # assigned[2].candidate

\* C10 as stated: a later image with the same candidate always receives a
\* suffixed name.
C10_SameCandidateAlwaysSuffixed ==
    \A i, k \in 1..Len(assigned) :
        (i < k /\ assigned[i].candidate = assigned[k].candidate)
            => assigned[k].filename # assigned[k].candidate

====
